---- MODULE Spec2Model ----
(***************************************************************************)
(* Model of the SEO analysis engine (src/seo_analyzer.py) and of the part  *)
(* of the dashboard that consumes its report (src/main.py).                *)
(*                                                                         *)
(* Python strings are sequences of one-character strings, so substring     *)
(* tests, str.lower, str.replace, str.split and f-string formatting are    *)
(* computed character by character.  An absent value (Python None) is the  *)
(* empty tuple and a present value x is the one-element tuple <<x>>.       *)
(***************************************************************************)
EXTENDS Naturals, Integers, Sequences, FiniteSets, TLC

VARIABLES
    url,                \* SEOAnalyzer.url
    pc,                 \* position inside analyze() / the function harness
    requests_log,       \* network requests issued so far, in order
    response,           \* Some([status, elapsed]) once the primary fetch returned
    soup,               \* Some(parsed page) once parsed
    text_content,       \* Some(extracted text) or None
    meta_analysis,      \* findings of analyze_meta_tags
    content_analysis,   \* findings of analyze_content
    technical_analysis, \* findings of analyze_technical
    improvements,       \* Some(result of generate_improvements)
    scores,             \* Some(result of calculate_scores)
    mobile,             \* outcome of the mobile-check request
    extraction,         \* outcome of the content-extraction calls
    report              \* Some(dictionary returned by analyze())

vars == <<url, pc, requests_log, response, soup, text_content, meta_analysis,
          content_analysis, technical_analysis, improvements, scores, mobile,
          extraction, report>>

None == <<>>

Some(x) == <<x>>

IsSome(o) == Len(o) = 1

Val(o) == o[1]

----------------------------------------------------------------------------
(* Python string primitives                                                *)

UpperCase ==
    <<"A","B","C","D","E","F","G","H","I","J","K","L","M","N","O","P","Q","R",
    "S","T","U","V","W","X","Y","Z">>

LowerCase ==
    <<"a","b","c","d","e","f","g","h","i","j","k","l","m","n","o","p","q","r",
    "s","t","u","v","w","x","y","z">>

\* str.lower on one character
LowerChar(c) ==
    IF \E i \in 1..Len(UpperCase) : UpperCase[i] = c
    THEN LowerCase[CHOOSE i \in 1..Len(UpperCase) : UpperCase[i] = c]
    ELSE c

\* str.lower
Lower(s) == [i \in 1..Len(s) |-> LowerChar(s[i])]

\* s[i:].startswith(p), i counted from 1
MatchAt(s, p, i) ==
    /\ i + Len(p) - 1 <= Len(s)
    /\ \A k \in 1..Len(p) : s[i + k - 1] = p[k]

\* str.startswith
StartsWith(s, p) == MatchAt(s, p, 1)

\* the Python test `kw in s`
Contains(s, kw) == \E i \in 1..(Len(s) + 1) : MatchAt(s, kw, i)

RECURSIVE ReplaceFrom(_, _, _, _)
\* str.replace from position i on: every non-overlapping occurrence of old,
\* scanning left to right
ReplaceFrom(s, old, new, i) ==
    IF i > Len(s) THEN <<>>
    ELSE IF Len(old) > 0 /\ MatchAt(s, old, i)
         THEN new \o ReplaceFrom(s, old, new, i + Len(old))
         ELSE <<s[i]>> \o ReplaceFrom(s, old, new, i + 1)

\* str.replace(old, new)
Replace(s, old, new) == ReplaceFrom(s, old, new, 1)

RECURSIVE SplitFrom(_, _, _, _)
\* str.split(sep) for a one-character separator: the segments of s from
\* position i on, cur being the segment read so far (empty segments kept)
SplitFrom(s, sep, i, cur) ==
    IF i > Len(s) THEN <<cur>>
    ELSE IF s[i] = sep
         THEN <<cur>> \o SplitFrom(s, sep, i + 1, <<>>)
         ELSE SplitFrom(s, sep, i + 1, Append(cur, s[i]))

\* str.split(sep)
Split(s, sep) == SplitFrom(s, sep, 1, <<>>)

Whitespace == {" ", "\t", "\n", "\r"}

\* len(s.split()): the number of maximal runs of non-whitespace characters
WordCount(s) ==
    Cardinality({i \in 1..Len(s) :
        /\ s[i] \notin Whitespace
        /\ (i = 1 \/ s[i - 1] \in Whitespace)})

Digits == <<"0","1","2","3","4","5","6","7","8","9">>

RECURSIVE FormatInt(_)
\* str(n) for n >= 0, as an f-string renders it
FormatInt(n) ==
    IF n < 10 THEN <<Digits[n + 1]>>
    ELSE Append(FormatInt(n \div 10), Digits[(n % 10) + 1])

----------------------------------------------------------------------------
(* The finding texts and keywords of src/seo_analyzer.py                   *)

\* "Title tag is too short (recommended: 50-60 characters)"
TITLE_TOO_SHORT ==
    <<"T","i","t","l","e"," ","t","a","g"," ","i","s"," ","t","o","o"," ","s",
    "h","o","r","t"," ","(","r","e","c","o","m","m","e","n","d","e","d",":",
    " ","5","0","-","6","0"," ","c","h","a","r","a","c","t","e","r","s",")">>

\* "Title tag is too long (recommended: 50-60 characters)"
TITLE_TOO_LONG ==
    <<"T","i","t","l","e"," ","t","a","g"," ","i","s"," ","t","o","o"," ","l",
    "o","n","g"," ","(","r","e","c","o","m","m","e","n","d","e","d",":"," ",
    "5","0","-","6","0"," ","c","h","a","r","a","c","t","e","r","s",")">>

\* "Title tag length is optimal"
TITLE_OPTIMAL ==
    <<"T","i","t","l","e"," ","t","a","g"," ","l","e","n","g","t","h"," ","i",
    "s"," ","o","p","t","i","m","a","l">>

\* "Missing title tag"
MISSING_TITLE ==
    <<"M","i","s","s","i","n","g"," ","t","i","t","l","e"," ","t","a","g">>

\* "Meta description is too short (recommended: 120-155 characters)"
DESC_TOO_SHORT ==
    <<"M","e","t","a"," ","d","e","s","c","r","i","p","t","i","o","n"," ","i",
    "s"," ","t","o","o"," ","s","h","o","r","t"," ","(","r","e","c","o","m",
    "m","e","n","d","e","d",":"," ","1","2","0","-","1","5","5"," ","c","h",
    "a","r","a","c","t","e","r","s",")">>

\* "Meta description is too long (recommended: 120-155 characters)"
DESC_TOO_LONG ==
    <<"M","e","t","a"," ","d","e","s","c","r","i","p","t","i","o","n"," ","i",
    "s"," ","t","o","o"," ","l","o","n","g"," ","(","r","e","c","o","m","m",
    "e","n","d","e","d",":"," ","1","2","0","-","1","5","5"," ","c","h","a",
    "r","a","c","t","e","r","s",")">>

\* "Meta description length is optimal"
DESC_OPTIMAL ==
    <<"M","e","t","a"," ","d","e","s","c","r","i","p","t","i","o","n"," ","l",
    "e","n","g","t","h"," ","i","s"," ","o","p","t","i","m","a","l">>

\* "Missing meta description"
MISSING_DESC ==
    <<"M","i","s","s","i","n","g"," ","m","e","t","a"," ","d","e","s","c","r",
    "i","p","t","i","o","n">>

\* "Missing H1 heading"
MISSING_H1 ==
    <<"M","i","s","s","i","n","g"," ","H","1"," ","h","e","a","d","i","n",
    "g">>

\* "Multiple H1 headings detected (recommended: only one)"
MULTIPLE_H1 ==
    <<"M","u","l","t","i","p","l","e"," ","H","1"," ","h","e","a","d","i","n",
    "g","s"," ","d","e","t","e","c","t","e","d"," ","(","r","e","c","o","m",
    "m","e","n","d","e","d",":"," ","o","n","l","y"," ","o","n","e",")">>

\* "Found "
FOUND_PREFIX ==
    <<"F","o","u","n","d"," ">>

\* " images without alt text"
IMAGES_SUFFIX ==
    <<" ","i","m","a","g","e","s"," ","w","i","t","h","o","u","t"," ","a","l",
    "t"," ","t","e","x","t">>

\* "Content length is too short (recommended: minimum 300 words)"
CONTENT_TOO_SHORT ==
    <<"C","o","n","t","e","n","t"," ","l","e","n","g","t","h"," ","i","s"," ",
    "t","o","o"," ","s","h","o","r","t"," ","(","r","e","c","o","m","m","e",
    "n","d","e","d",":"," ","m","i","n","i","m","u","m"," ","3","0","0"," ",
    "w","o","r","d","s",")">>

\* "Good content length: "
GOOD_CONTENT_PREFIX ==
    <<"G","o","o","d"," ","c","o","n","t","e","n","t"," ","l","e","n","g","t",
    "h",":"," ">>

\* " words"
WORDS_SUFFIX ==
    <<" ","w","o","r","d","s">>

\* "Slow page load time (> 2 seconds)"
SLOW_LOAD ==
    <<"S","l","o","w"," ","p","a","g","e"," ","l","o","a","d"," ","t","i","m",
    "e"," ","(",">"," ","2"," ","s","e","c","o","n","d","s",")">>

\* "URL structure is too deep (recommended: maximum 3 levels)"
URL_TOO_DEEP ==
    <<"U","R","L"," ","s","t","r","u","c","t","u","r","e"," ","i","s"," ","t",
    "o","o"," ","d","e","e","p"," ","(","r","e","c","o","m","m","e","n","d",
    "e","d",":"," ","m","a","x","i","m","u","m"," ","3"," ","l","e","v","e",
    "l","s",")">>

\* "Website is not using HTTPS"
NOT_HTTPS ==
    <<"W","e","b","s","i","t","e"," ","i","s"," ","n","o","t"," ","u","s","i",
    "n","g"," ","H","T","T","P","S">>

\* "Missing"
KW_Missing ==
    <<"M","i","s","s","i","n","g">>

\* "too"
KW_too ==
    <<"t","o","o">>

\* "Slow"
KW_Slow ==
    <<"S","l","o","w">>

\* "not"
KW_not ==
    <<"n","o","t">>

\* "missing"
KW_missing ==
    <<"m","i","s","s","i","n","g">>

\* "slow"
KW_slow ==
    <<"s","l","o","w">>

\* "multiple"
KW_multiple ==
    <<"m","u","l","t","i","p","l","e">>

\* "Add"
STR_Add ==
    <<"A","d","d">>

\* "too short"
STR_too_short ==
    <<"t","o","o"," ","s","h","o","r","t">>

\* "increase length of"
STR_increase ==
    <<"i","n","c","r","e","a","s","e"," ","l","e","n","g","t","h"," ","o",
    "f">>

\* "too long"
STR_too_long ==
    <<"t","o","o"," ","l","o","n","g">>

\* "reduce length of"
STR_reduce ==
    <<"r","e","d","u","c","e"," ","l","e","n","g","t","h"," ","o","f">>

\* "https"
STR_https ==
    <<"h","t","t","p","s">>

----------------------------------------------------------------------------
(* Thresholds and penalties written as literals in src/seo_analyzer.py     *)

TITLE_MIN == 30

TITLE_MAX == 60

DESC_MIN == 120

DESC_MAX == 155

MIN_WORDS == 300

SLOW_SECONDS == 2

MAX_PATH_SEGMENTS == 4

FULL_SCORE == 100

META_PENALTY == 20

CONTENT_PENALTY == 15

TECHNICAL_PENALTY == 25

HTTP_OK == 200

\* Python truthiness of a str
Truthy(s) == Len(s) > 0

----------------------------------------------------------------------------
(* SEOAnalyzer.analyze_meta_tags                                           *)
(* sp.title is soup.title.string when soup.title exists (None when there   *)
(* is no title tag or the tag has no single string child); sp.meta_desc is *)
(* None when soup.find finds no tag, else Some([content |-> c]) with c the *)
(* tag's content attribute, None when the attribute is absent.             *)

\* TitleAnalysis with the lower bound compared by <= instead of <
TitleAnalysisExclusive(sp) ==
    LET title == sp.title IN
    IF IsSome(title) /\ Truthy(Val(title))
    THEN IF Len(Val(title)) <= TITLE_MIN THEN TITLE_TOO_SHORT
         ELSE IF Len(Val(title)) > TITLE_MAX THEN TITLE_TOO_LONG
         ELSE TITLE_OPTIMAL
    ELSE MISSING_TITLE

\* lines 57-67
TitleAnalysis(sp) ==
    LET title == sp.title IN
    IF IsSome(title) /\ Truthy(Val(title))
    THEN IF Len(Val(title)) < TITLE_MIN THEN TITLE_TOO_SHORT
         ELSE IF Len(Val(title)) > TITLE_MAX THEN TITLE_TOO_LONG
         ELSE TITLE_OPTIMAL
    ELSE MISSING_TITLE

\* lines 69-80
DescriptionAnalysis(sp) ==
    LET meta_desc == sp.meta_desc IN
    IF /\ IsSome(meta_desc)
       /\ IsSome(Val(meta_desc).content)
       /\ Truthy(Val(Val(meta_desc).content))
    THEN LET desc_length == Len(Val(Val(meta_desc).content)) IN
         IF desc_length < DESC_MIN THEN DESC_TOO_SHORT
         ELSE IF desc_length > DESC_MAX THEN DESC_TOO_LONG
         ELSE DESC_OPTIMAL
    ELSE MISSING_DESC

analyze_meta_tags(sp) ==
    LET a0 == <<>>
        a1 == Append(a0, TitleAnalysis(sp))
        a2 == Append(a1, DescriptionAnalysis(sp))
    IN  a2

----------------------------------------------------------------------------
(* SEOAnalyzer.analyze_content                                             *)
(* sp.h1 is len(soup.find_all('h1')); sp.images is the sequence of the alt *)
(* attributes of the img tags, None for a tag without one.                 *)

ImagesWithoutAlt(sp) ==
    Cardinality({i \in 1..Len(sp.images) :
        ~(IsSome(sp.images[i]) /\ Truthy(Val(sp.images[i])))})

\* ContentLength with an absent text counted as a text of no words
ContentLengthOfAbsentText(analysis, text) ==
    LET word_count == IF IsSome(text) THEN WordCount(Val(text)) ELSE 0 IN
    IF word_count < MIN_WORDS
    THEN Append(analysis, CONTENT_TOO_SHORT)
    ELSE Append(analysis, GOOD_CONTENT_PREFIX \o FormatInt(word_count)
                          \o WORDS_SUFFIX)

\* lines 101-107: the content-length rule, appending to analysis
ContentLength(analysis, text) ==
    IF IsSome(text) /\ Truthy(Val(text))
    THEN LET word_count == WordCount(Val(text)) IN
         IF word_count < MIN_WORDS
         THEN Append(analysis, CONTENT_TOO_SHORT)
         ELSE Append(analysis, GOOD_CONTENT_PREFIX \o FormatInt(word_count)
                               \o WORDS_SUFFIX)
    ELSE analysis

analyze_content(sp, text) ==
    LET a0 == <<>>
        a1 == IF sp.h1 = 0 THEN Append(a0, MISSING_H1)
              ELSE IF sp.h1 > 1 THEN Append(a0, MULTIPLE_H1)
              ELSE a0
        images_without_alt == ImagesWithoutAlt(sp)
        a2 == IF images_without_alt > 0
              THEN Append(a1, FOUND_PREFIX \o FormatInt(images_without_alt)
                              \o IMAGES_SUFFIX)
              ELSE a1
        a3 == ContentLength(a2, text)
    IN  a3

----------------------------------------------------------------------------
(* SEOAnalyzer.analyze_technical                                           *)

\* the least position >= i of s holding a character of stop, Len(s)+1 if none
FirstOf(s, stop, i) ==
    IF \E k \in i..Len(s) : s[k] \in stop
    THEN CHOOSE k \in i..Len(s) :
            /\ s[k] \in stop
            /\ \A j \in i..(k - 1) : s[j] \notin stop
    ELSE Len(s) + 1

\* urlparse(u).path: what follows "scheme://netloc" up to the query or fragment
UrlPath(u) ==
    LET colon == FirstOf(u, {":"}, 1)
        netloc == IF MatchAt(u, <<"/","/">>, colon + 1) THEN colon + 3
                  ELSE colon + 1
        start == IF MatchAt(u, <<"/","/">>, colon + 1)
                 THEN FirstOf(u, {"/", "?", "#"}, netloc)
                 ELSE netloc
        stop == FirstOf(u, {"?", "#"}, start)
    IN  SubSeq(u, start, stop - 1)

\* PathTooDeep splitting the whole URL instead of its path
PathTooDeepWholeUrl(u) == Len(Split(u, "/")) > MAX_PATH_SEGMENTS

\* lines 120-121: len(parsed_url.path.split('/')) > 4
PathTooDeep(u) ==
    LET parsed_path == UrlPath(u) IN
    Len(Split(parsed_path, "/")) > MAX_PATH_SEGMENTS

\* resp.elapsed is response.elapsed in milliseconds
analyze_technical(resp, u) ==
    LET a0 == <<>>
        a1 == IF resp.elapsed > SLOW_SECONDS * 1000
              THEN Append(a0, SLOW_LOAD) ELSE a0
        a2 == IF PathTooDeep(u)
              THEN Append(a1, URL_TOO_DEEP) ELSE a1
        a3 == IF ~StartsWith(u, STR_https)
              THEN Append(a2, NOT_HTTPS) ELSE a2
    IN  a3

----------------------------------------------------------------------------
(* SEOAnalyzer.calculate_scores                                            *)

Max(a, b) == IF a >= b THEN a ELSE b

Min(a, b) == IF a <= b THEN a ELSE b

\* CountIssues testing the first keyword only
CountIssuesFirstKeyword(analysis, k1, k2) ==
    Cardinality({i \in 1..Len(analysis) : Contains(analysis[i], k1)})

\* len([x for x in analysis if k1 in x or k2 in x])
CountIssues(analysis, k1, k2) ==
    Cardinality({i \in 1..Len(analysis) :
        Contains(analysis[i], k1) \/ Contains(analysis[i], k2)})

\* Clamp without the lower bound
ClampUpperOnly(score) == Min(FULL_SCORE, score)

\* max(0, min(100, score))
Clamp(score) == Max(0, Min(FULL_SCORE, score))

calculate_scores(meta, content, technical) ==
    LET meta_score == FULL_SCORE
            - CountIssues(meta, KW_Missing, KW_too) * META_PENALTY
        content_score == FULL_SCORE
            - CountIssues(content, KW_Missing, KW_too) * CONTENT_PENALTY
        technical_score == FULL_SCORE
            - CountIssues(technical, KW_Slow, KW_not) * TECHNICAL_PENALTY
    IN  [meta |-> Clamp(meta_score),
         content |-> Clamp(content_score),
         technical |-> Clamp(technical_score),
         \* (meta + content + technical) / 3, kept as its numerator: the
         \* mean is a float
         overall_times_3 |-> Clamp(meta_score) + Clamp(content_score)
                             + Clamp(technical_score)]

----------------------------------------------------------------------------
(* SEOAnalyzer.generate_improvements                                       *)

ImprovementKeywords == <<KW_missing, KW_too, KW_slow, KW_multiple>>

\* NeedsImprovement without issue.lower()
NeedsImprovementCaseSensitive(issue) ==
    \E k \in 1..Len(ImprovementKeywords) :
        Contains(issue, ImprovementKeywords[k])

\* any(keyword in issue.lower() for keyword in [...])
NeedsImprovement(issue) ==
    LET lowered == Lower(issue) IN
    \E k \in 1..Len(ImprovementKeywords) :
        Contains(lowered, ImprovementKeywords[k])

\* the three chained str.replace calls
Suggestion(issue) ==
    LET s1 == Replace(issue, KW_Missing, STR_Add)
        s2 == Replace(s1, STR_too_short, STR_increase)
        s3 == Replace(s2, STR_too_long, STR_reduce)
    IN  s3

RECURSIVE ImprovementsLoop(_, _, _)
\* the for loop over the concatenated findings, from index i on
ImprovementsLoop(issues, i, acc) ==
    IF i > Len(issues) THEN acc
    ELSE ImprovementsLoop(issues, i + 1,
            IF NeedsImprovement(issues[i])
            THEN Append(acc, Suggestion(issues[i]))
            ELSE acc)

generate_improvements(meta, content, technical) ==
    ImprovementsLoop(meta \o content \o technical, 1, <<>>)

----------------------------------------------------------------------------
(* SEOAnalyzer.check_mobile_friendly                                       *)
(* outcome is what requests.get does: [raised |-> TRUE] or                 *)
(* [raised |-> FALSE, status |-> code].  The result says whether the       *)
(* method raised and, when it did not, the value it returned.              *)

\* check_mobile_friendly without the try/except
check_mobile_friendly_unguarded(outcome) ==
    [raised |-> outcome.raised,
     value |-> (~outcome.raised /\ outcome.status = HTTP_OK)]

check_mobile_friendly(outcome) ==
    IF outcome.raised
    THEN [raised |-> FALSE, value |-> FALSE]
    ELSE [raised |-> FALSE, value |-> (outcome.status = HTTP_OK)]

----------------------------------------------------------------------------
(* Inputs of analyze(): the URL, what the network returns, the page       *)

\* "https://example.com/"
URL_ROOT ==
    <<"h","t","t","p","s",":","/","/","e","x","a","m","p","l","e",".","c","o",
    "m","/">>

\* "http://example.com"
URL_BARE ==
    <<"h","t","t","p",":","/","/","e","x","a","m","p","l","e",".","c","o",
    "m">>

\* "https://example.com/a/b/c"
URL_THREE ==
    <<"h","t","t","p","s",":","/","/","e","x","a","m","p","l","e",".","c","o",
    "m","/","a","/","b","/","c">>

\* "https://example.com/a/b/c/"
URL_THREE_SLASH ==
    <<"h","t","t","p","s",":","/","/","e","x","a","m","p","l","e",".","c","o",
    "m","/","a","/","b","/","c","/">>

\* "https://example.com/a/b/c/d/e"
URL_DEEP ==
    <<"h","t","t","p","s",":","/","/","e","x","a","m","p","l","e",".","c","o",
    "m","/","a","/","b","/","c","/","d","/","e">>

\* "http://example.com/a/b/c/d"
URL_HTTP_DEEP ==
    <<"h","t","t","p",":","/","/","e","x","a","m","p","l","e",".","c","o","m",
    "/","a","/","b","/","c","/","d">>

\* "https://example.com/a?next=/b/c/d/e"
URL_QUERY ==
    <<"h","t","t","p","s",":","/","/","e","x","a","m","p","l","e",".","c","o",
    "m","/","a","?","n","e","x","t","=","/","b","/","c","/","d","/","e">>

URLS == {URL_ROOT, URL_BARE, URL_THREE, URL_THREE_SLASH, URL_DEEP,
         URL_HTTP_DEEP, URL_QUERY}

\* a string of n characters
Str(n) == [i \in 1..n |-> "x"]

\* a text of n >= 1 words separated by single blanks
Words(n) == [i \in 1..(2 * n - 1) |-> IF i % 2 = 1 THEN "w" ELSE " "]

MaxH1 == 2

MaxImages == 2

\* title strings of the pages fetched by analyze(): none, short, optimal
PageTitles == {None, Some(Str(10)), Some(Str(45))}

\* meta description tags: no tag, no content attribute, optimal
PageDescriptions ==
    {None, Some([content |-> None]), Some([content |-> Some(Str(130))])}

\* alt attributes of the page's images: no image, or MaxImages + 1 images of
\* which the first has an alt text, the second none and the others an empty one
PageImages ==
    {[i \in 1..n |-> IF i = 1 THEN Some(Str(3)) ELSE IF i = 2 THEN None
                     ELSE Some(Str(0))] : n \in {0, MaxImages + 1}}

Pages ==
    [title : PageTitles, meta_desc : PageDescriptions, h1 : 0..MaxH1,
     images : PageImages]

\* response.status_code and response.elapsed (milliseconds) of the primary fetch
Responses ==
    [status : {HTTP_OK}, elapsed : {2000, 2001}]
        \cup [status : {404}, elapsed : {2000}]

\* what trafilatura.fetch_url / trafilatura.extract yield: an exception, or
\* the extracted text (None when the download or the extraction gave nothing)
Extractions ==
    {[raised |-> TRUE, text |-> None]}
        \cup {[raised |-> FALSE, text |-> t] :
                t \in {None, Some(Str(0)), Some(Words(299)),
                       Some(Words(300))}}

\* what requests.get does in check_mobile_friendly
MobileOutcomes ==
    {[raised |-> TRUE, status |-> 0]}
        \cup {[raised |-> FALSE, status |-> s] : s \in {HTTP_OK, 404}}

----------------------------------------------------------------------------
(* SEOAnalyzer.analyze, one action per blocking call                       *)

Init ==
    /\ url \in URLS
    /\ pc = "start"
    /\ requests_log = <<>>
    /\ response = None
    /\ soup = None
    /\ text_content = None
    /\ meta_analysis = <<>>
    /\ content_analysis = <<>>
    /\ technical_analysis = <<>>
    /\ improvements = None
    /\ scores = None
    /\ mobile = None
    /\ extraction = None
    /\ report = None

\* Fetch issuing the request a second time when the first one raises
FetchWithRetry ==
    /\ pc = "start"
    /\ \/ /\ requests_log' = requests_log \o <<"primary", "primary">>
          /\ pc' = "raised"
          /\ UNCHANGED <<response, soup>>
       \/ /\ requests_log' = Append(requests_log, "primary")
          /\ \E r \in Responses, p \in Pages :
                /\ response' = Some(r)
                /\ soup' = Some(p)
          /\ pc' = "fetched"
    /\ UNCHANGED <<url, text_content, meta_analysis, content_analysis,
                   technical_analysis, improvements, scores, mobile,
                   extraction, report>>

\* requests.get(self.url) and BeautifulSoup(response.text): the request either
\* raises, which ends analyze(), or returns a response whose body is parsed
Fetch ==
    /\ pc = "start"
    /\ requests_log' = Append(requests_log, "primary")
    /\ \/ /\ pc' = "raised"
          /\ UNCHANGED <<response, soup>>
       \/ /\ \E r \in Responses, p \in Pages :
                /\ response' = Some(r)
                /\ soup' = Some(p)
          /\ pc' = "fetched"
    /\ UNCHANGED <<url, text_content, meta_analysis, content_analysis,
                   technical_analysis, improvements, scores, mobile,
                   extraction, report>>

\* trafilatura.fetch_url(self.url) and trafilatura.extract(downloaded): there
\* is no try around them, so an exception ends analyze()
Extract ==
    /\ pc = "fetched"
    /\ requests_log' = Append(requests_log, "extract")
    /\ \E e \in Extractions :
        /\ extraction' = Some(e)
        /\ IF e.raised
           THEN pc' = "raised" /\ UNCHANGED text_content
           ELSE pc' = "extracted" /\ text_content' = e.text
    /\ UNCHANGED <<url, response, soup, meta_analysis, content_analysis,
                   technical_analysis, improvements, scores, mobile, report>>

\* the three analyzers, generate_improvements and calculate_scores
Analyze ==
    /\ pc = "extracted"
    /\ meta_analysis' = analyze_meta_tags(Val(soup))
    /\ content_analysis' = analyze_content(Val(soup), text_content)
    /\ technical_analysis' = analyze_technical(Val(response), url)
    /\ improvements' = Some(generate_improvements(meta_analysis',
                                content_analysis', technical_analysis'))
    /\ scores' = Some(calculate_scores(meta_analysis', content_analysis',
                                       technical_analysis'))
    /\ pc' = "scored"
    /\ UNCHANGED <<url, requests_log, response, soup, text_content, mobile,
                   extraction, report>>

\* the dictionary of the return statement (load_time, a wall-clock reading,
\* is left out)
Report(sc, is_mobile, u, meta, content, technical, imp) ==
    [overall_times_3 |-> sc.overall_times_3,
     metrics |-> [meta |-> sc.meta, content |-> sc.content,
                  technical |-> sc.technical],
     mobile_friendly |-> is_mobile,
     ssl_certified |-> StartsWith(u, STR_https),
     meta_analysis |-> meta,
     content_analysis |-> content,
     technical_analysis |-> technical,
     improvements |-> imp]

\* the return statement: building the dictionary calls check_mobile_friendly,
\* which issues the mobile request
Return ==
    /\ pc = "scored"
    /\ requests_log' = Append(requests_log, "mobile")
    /\ \E o \in MobileOutcomes :
        /\ mobile' = Some(o)
        /\ LET r == check_mobile_friendly(o) IN
           IF r.raised
           THEN pc' = "raised" /\ UNCHANGED report
           ELSE /\ pc' = "done"
                /\ report' = Some(Report(Val(scores), r.value, url,
                                    meta_analysis, content_analysis,
                                    technical_analysis, Val(improvements)))
    /\ UNCHANGED <<url, response, soup, text_content, meta_analysis,
                   content_analysis, technical_analysis, improvements,
                   scores, extraction>>

Next == Fetch \/ Extract \/ Analyze \/ Return

Spec == Init /\ [][Next]_vars

----------------------------------------------------------------------------
(* src/main.py: grouping of the improvements by their bracketed category   *)

\* str.find(c) for a one-character c: 0-based index, -1 when absent
Find(s, c) == FirstOf(s, {c}, 1) - 1 - (IF FirstOf(s, {c}, 1) > Len(s)
                                         THEN Len(s) + 1 ELSE 0)

\* the slice s[a:b] for a >= 0; a negative b counts from the end
Slice(s, a, b) ==
    LET stop == IF b < 0 THEN Max(0, Len(s) + b) ELSE Min(b, Len(s))
    IN  SubSeq(s, a + 1, stop)

\* category = item[1:item.find(']')]
GroupCategory(item) == Slice(item, 1, Find(item, "]"))

----------------------------------------------------------------------------
(* calculate_scores, generate_improvements and analyze_meta_tags applied   *)
(* to arbitrary arguments                                                  *)

\* the sequences over S of length at most n
SeqsUpTo(S, n) == UNION {[1..k -> S] : k \in 0..n}

\* "Images are missing alt text"
LOWER_MISSING ==
    <<"I","m","a","g","e","s"," ","a","r","e"," ","m","i","s","s","i","n","g",
    " ","a","l","t"," ","t","e","x","t">>

Categories == {"meta", "content", "technical"}

MaxFindings == 5

\* findings passed to calculate_scores: three the analyzers emit and one they
\* do not, which holds a keyword in another case
ScoreFindings == {MISSING_TITLE, TITLE_TOO_SHORT, NOT_HTTPS, LOWER_MISSING}

\* the two sequences not being varied
OtherFindings == {<<>>, <<TITLE_TOO_SHORT, SLOW_LOAD, NOT_HTTPS>>}

Idle ==
    /\ url = None
    /\ requests_log = <<>>
    /\ response = None
    /\ text_content = None
    /\ mobile = None
    /\ extraction = None
    /\ report = None

InitScores ==
    /\ pc = "args"
    /\ Idle
    /\ soup = None
    /\ improvements = None
    /\ scores = None
    /\ \E c \in Categories, s \in SeqsUpTo(ScoreFindings, MaxFindings),
          o \in OtherFindings :
        /\ meta_analysis = IF c = "meta" THEN s ELSE o
        /\ content_analysis = IF c = "content" THEN s ELSE o
        /\ technical_analysis = IF c = "technical" THEN s ELSE o

CallCalculateScores ==
    /\ pc = "args"
    /\ scores' = Some(calculate_scores(meta_analysis, content_analysis,
                                       technical_analysis))
    /\ pc' = "returned"
    /\ UNCHANGED <<url, requests_log, response, soup, text_content,
                   meta_analysis, content_analysis, technical_analysis,
                   improvements, mobile, extraction, report>>

NextScores == CallCalculateScores

SpecScores == InitScores /\ [][NextScores]_vars

MaxIssues == 2

\* findings passed to generate_improvements
ImprovementFindings ==
    {MISSING_TITLE, TITLE_TOO_SHORT, DESC_TOO_LONG, MULTIPLE_H1, SLOW_LOAD,
     NOT_HTTPS, LOWER_MISSING}

InitImprovements ==
    /\ pc = "args"
    /\ Idle
    /\ soup = None
    /\ improvements = None
    /\ scores = None
    /\ \E m \in SeqsUpTo(ImprovementFindings, MaxIssues) :
       \E c \in SeqsUpTo(ImprovementFindings, MaxIssues - Len(m)) :
       \E t \in SeqsUpTo(ImprovementFindings, MaxIssues - Len(m) - Len(c)) :
        /\ meta_analysis = m
        /\ content_analysis = c
        /\ technical_analysis = t

CallGenerateImprovements ==
    /\ pc = "args"
    /\ improvements' = Some(generate_improvements(meta_analysis,
                                content_analysis, technical_analysis))
    /\ pc' = "returned"
    /\ UNCHANGED <<url, requests_log, response, soup, text_content,
                   meta_analysis, content_analysis, technical_analysis,
                   scores, mobile, extraction, report>>

NextImprovements == CallGenerateImprovements

SpecImprovements == InitImprovements /\ [][NextImprovements]_vars

MaxTitleLen == 62

MaxDescLen == 157

\* parsed pages given to analyze_meta_tags: every title and description
\* length around the thresholds, and the absent forms
MetaPages ==
    [title : {None} \cup {Some(Str(n)) : n \in 0..MaxTitleLen},
     meta_desc : {None, Some([content |-> None])}
        \cup {Some([content |-> Some(Str(n))]) : n \in 0..MaxDescLen},
     h1 : {1},
     images : {<<>>}]

InitMeta ==
    /\ pc = "args"
    /\ Idle
    /\ soup \in {Some(p) : p \in MetaPages}
    /\ meta_analysis = <<>>
    /\ content_analysis = <<>>
    /\ technical_analysis = <<>>
    /\ improvements = None
    /\ scores = None

CallAnalyzeMetaTags ==
    /\ pc = "args"
    /\ meta_analysis' = analyze_meta_tags(Val(soup))
    /\ pc' = "returned"
    /\ UNCHANGED <<url, requests_log, response, soup, text_content,
                   content_analysis, technical_analysis, improvements,
                   scores, mobile, extraction, report>>

NextMeta == CallAnalyzeMetaTags

SpecMeta == InitMeta /\ [][NextMeta]_vars

----------------------------------------------------------------------------
(* The claims                                                              *)

\* the elements of a sequence
Range(s) == {s[i] : i \in 1..Len(s)}

\* a <= b as sequences: a is an initial part of b
IsPrefix(a, b) == Len(a) <= Len(b) /\ SubSeq(b, 1, Len(a)) = a

\* the findings of analysis holding k1 or k2, compared with the case folded
\* (fold) or as written
NumHolding(analysis, k1, k2, fold) ==
    Cardinality({i \in 1..Len(analysis) :
        LET x == IF fold THEN Lower(analysis[i]) ELSE analysis[i] IN
        Contains(x, k1) \/ Contains(x, k2)})

\* max(0, 100 - p * n)
PenalisedScore(p, n) == IF 100 - p * n < 0 THEN 0 ELSE 100 - p * n

\* C1: each of the three category scores returned by calculate_scores is an
\* integer between 0 and 100, whatever the finding sequences passed.
C1_ScoresWithinRange ==
    IsSome(scores) =>
        /\ Val(scores).meta \in 0..100
        /\ Val(scores).content \in 0..100
        /\ Val(scores).technical \in 0..100

\* C1 witness: five penalised technical findings, whose penalties exceed 100,
\* leave the technical score at 0.
C1_Witness ==
    /\ IsSome(scores)
    /\ Len(technical_analysis) = 5
    /\ \A i \in 1..5 : technical_analysis[i] = NOT_HTTPS
    /\ Val(scores).technical = 0

\* the 'too short' title finding costs exactly 20 points of meta score against
\* the optimal title finding in its place (two meta findings, as the meta
\* analyzer emits)
TooShortTitleCostsTwenty ==
    \A i \in 1..Len(meta_analysis) :
        (Len(meta_analysis) = 2 /\ meta_analysis[i] = TITLE_TOO_SHORT) =>
            Val(scores).meta =
                calculate_scores([meta_analysis EXCEPT ![i] = TITLE_OPTIMAL],
                    content_analysis, technical_analysis).meta - 20

\* C2 as stated: each category score is max(0, 100 - p * n), n counting the
\* findings holding a keyword of the category as a case-insensitive
\* substring: p = 20, {missing, too} for meta; p = 15, {missing, too} for
\* content; p = 25, {slow, not} for technical; and a 'too short' title
\* finding in place of the optimal one lowers the meta score by exactly 20.
C2_CaseInsensitivePenalties ==
    IsSome(scores) =>
        /\ Val(scores).meta =
            PenalisedScore(20, NumHolding(meta_analysis, KW_missing, KW_too, TRUE))
        /\ Val(scores).content =
            PenalisedScore(15, NumHolding(content_analysis, KW_missing, KW_too,
                                          TRUE))
        /\ Val(scores).technical =
            PenalisedScore(25, NumHolding(technical_analysis, KW_slow, KW_not,
                                          TRUE))
        /\ TooShortTitleCostsTwenty

\* C2 amended: each category score is max(0, 100 - p * n), n counting the
\* findings holding a keyword of the category as a case-sensitive substring:
\* p = 20, {Missing, too} for meta; p = 15, {Missing, too} for content;
\* p = 25, {Slow, not} for technical; and a 'too short' title finding in
\* place of the optimal one lowers the meta score by exactly 20.
C2_CaseSensitivePenalties ==
    IsSome(scores) =>
        /\ Val(scores).meta =
            PenalisedScore(20, NumHolding(meta_analysis, KW_Missing, KW_too,
                                          FALSE))
        /\ Val(scores).content =
            PenalisedScore(15, NumHolding(content_analysis, KW_Missing, KW_too,
                                          FALSE))
        /\ Val(scores).technical =
            PenalisedScore(25, NumHolding(technical_analysis, KW_Slow, KW_not,
                                          FALSE))
        /\ TooShortTitleCostsTwenty

\* C2 witness: a 'too short' title finding beside a finding that holds
\* "missing" in lower case only: one penalty, a meta score of 80.
C2_Witness ==
    /\ IsSome(scores)
    /\ meta_analysis = <<TITLE_TOO_SHORT, LOWER_MISSING>>
    /\ Val(scores).meta = 80

\* "meta"
NAME_META ==
    <<"m","e","t","a">>

\* "content"
NAME_CONTENT ==
    <<"c","o","n","t","e","n","t">>

\* "technical"
NAME_TECHNICAL ==
    <<"t","e","c","h","n","i","c","a","l">>

\* the findings of one category in a report
FindingsOf(r, c) ==
    IF c = "meta" THEN r.meta_analysis
    ELSE IF c = "content" THEN r.content_analysis
    ELSE r.technical_analysis

\* the name of a category, as the dashboard shows it
CategoryName(c) ==
    IF c = "meta" THEN NAME_META
    ELSE IF c = "content" THEN NAME_CONTENT
    ELSE NAME_TECHNICAL

\* "[meta] ", "[content] ", "[technical] "
CategoryTag(c) == <<"[">> \o CategoryName(c) \o <<"]", " ">>

\* C3: every improvement of a returned report is a bracketed category tag
\* followed by the suggestion derived from a finding of that category, and
\* the dashboard's grouping reads the category back from between the brackets.
C3_ImprovementsCarryCategoryTag ==
    pc = "done" =>
        \A i \in 1..Len(Val(report).improvements) :
            LET item == Val(report).improvements[i] IN
            \E c \in Categories :
                /\ StartsWith(item, CategoryTag(c))
                /\ GroupCategory(item) = CategoryName(c)
                /\ \E f \in Range(FindingsOf(Val(report), c)) :
                    item = CategoryTag(c) \o Suggestion(f)

\* C4: when the mobile request raises, analyze() still returns a report, its
\* mobile_friendly is false and the rest of it (the scores, findings and
\* improvements computed before the check) is what a successful mobile check
\* gives; when the request does not raise, mobile_friendly is true exactly
\* for status 200.
C4_MobileCheckNeverAborts ==
    IsSome(mobile) =>
        /\ pc = "done"
        /\ IsSome(report)
        /\ Val(report).mobile_friendly =
            (~Val(mobile).raised /\ Val(mobile).status = 200)
        /\ [Val(report) EXCEPT !.mobile_friendly = TRUE] =
            Report(Val(scores), TRUE, url, meta_analysis, content_analysis,
                   technical_analysis, Val(improvements))

\* C4 witness: a mobile request that raised, and a report with mobile_friendly
\* false and a non-empty list of improvements.
C4_Witness ==
    /\ pc = "done"
    /\ Val(mobile).raised
    /\ ~Val(report).mobile_friendly
    /\ Len(Val(report).improvements) > 0

\* no finding about the content length
NoContentLengthFinding(analysis) ==
    \A i \in 1..Len(analysis) :
        /\ analysis[i] # CONTENT_TOO_SHORT
        /\ ~StartsWith(analysis[i], GOOD_CONTENT_PREFIX)

\* the extraction failed: it raised, or it yielded no text
ExtractionFailed ==
    /\ IsSome(extraction)
    /\ \/ Val(extraction).raised
       \/ ~IsSome(Val(extraction).text)
       \/ Val(extraction).text = Some(<<>>)

\* C5 as stated: a failed content extraction (raising, or yielding no text)
\* never aborts analyze(), and the content findings then hold no
\* content-length finding.
C5_ExtractionFailureSwallowed ==
    ExtractionFailed =>
        /\ pc # "raised"
        /\ NoContentLengthFinding(content_analysis)

\* C5 amended: a content extraction that yields no text (None or the empty
\* string) does not abort analyze(), which returns a report whose content
\* findings hold no content-length finding; a download or extraction that
\* raises is not caught: analyze() raises and returns no report.
C5_NoTextSkipsLengthRaisePropagates ==
    ExtractionFailed =>
        IF Val(extraction).raised
        THEN pc = "raised" /\ report = None
        ELSE /\ pc # "raised"
             /\ NoContentLengthFinding(content_analysis)
             /\ (pc = "done" =>
                    /\ IsSome(report)
                    /\ NoContentLengthFinding(Val(report).content_analysis))

\* C5 witness: the extraction yielded None and a report was returned.
C5_Witness ==
    /\ pc = "done"
    /\ IsSome(report)
    /\ IsSome(extraction)
    /\ ~Val(extraction).raised
    /\ Val(extraction).text = None

\* the title finding the claim names for a title string (None when absent);
\* empty_is_missing says whether an empty string counts as absent
TitleFinding(title, empty_is_missing) ==
    IF ~IsSome(title) \/ (empty_is_missing /\ Len(Val(title)) = 0)
    THEN MISSING_TITLE
    ELSE IF Len(Val(title)) < 30 THEN TITLE_TOO_SHORT
    ELSE IF Len(Val(title)) > 60 THEN TITLE_TOO_LONG
    ELSE TITLE_OPTIMAL

\* the description finding the claim names for a meta description tag
DescriptionFinding(tag, empty_is_missing) ==
    IF \/ ~IsSome(tag)
       \/ ~IsSome(Val(tag).content)
       \/ (empty_is_missing /\ Len(Val(Val(tag).content)) = 0)
    THEN MISSING_DESC
    ELSE IF Len(Val(Val(tag).content)) < 120 THEN DESC_TOO_SHORT
    ELSE IF Len(Val(Val(tag).content)) > 155 THEN DESC_TOO_LONG
    ELSE DESC_OPTIMAL

\* C6 as stated: analyze_meta_tags returns exactly two findings, the title
\* finding then the description finding: 'Missing' when the title (the tag
\* or its content attribute) is absent, 'too short' below 30 (120)
\* characters, 'too long' above 60 (155), 'optimal' in between.
C6_MetaFindingsByLength ==
    pc = "returned" =>
        meta_analysis = <<TitleFinding(Val(soup).title, FALSE),
                          DescriptionFinding(Val(soup).meta_desc, FALSE)>>

\* C6 amended: analyze_meta_tags returns exactly two findings, the title
\* finding then the description finding: 'Missing' when the title (the tag
\* or its content attribute) is absent or empty, 'too short' for a length
\* from 1 to 29 (1 to 119), 'too long' above 60 (155), 'optimal' for every
\* length in [30,60] ([120,155]).
C6_MetaFindingsEmptyIsMissing ==
    pc = "returned" =>
        meta_analysis = <<TitleFinding(Val(soup).title, TRUE),
                          DescriptionFinding(Val(soup).meta_desc, TRUE)>>

\* C6 witness: a title of 30 and a description of 155 characters, the ends of
\* the optimal ranges, both found optimal.
C6_Witness ==
    /\ pc = "returned"
    /\ Val(soup).title = Some(Str(30))
    /\ Val(soup).meta_desc = Some([content |-> Some(Str(155))])
    /\ meta_analysis = <<TITLE_OPTIMAL, DESC_OPTIMAL>>

\* "Add title tag"
ADD_TITLE ==
    <<"A","d","d"," ","t","i","t","l","e"," ","t","a","g">>

\* "Title tag is increase length of (recommended: 50-60 characters)"
TITLE_INCREASE ==
    <<"T","i","t","l","e"," ","t","a","g"," ","i","s"," ","i","n","c","r","e",
    "a","s","e"," ","l","e","n","g","t","h"," ","o","f"," ","(","r","e","c",
    "o","m","m","e","n","d","e","d",":"," ","5","0","-","6","0"," ","c","h",
    "a","r","a","c","t","e","r","s",")">>

\* "Meta description is reduce length of (recommended: 120-155 characters)"
DESC_REDUCE ==
    <<"M","e","t","a"," ","d","e","s","c","r","i","p","t","i","o","n"," ","i",
    "s"," ","r","e","d","u","c","e"," ","l","e","n","g","t","h"," ","o","f",
    " ","(","r","e","c","o","m","m","e","n","d","e","d",":"," ","1","2","0",
    "-","1","5","5"," ","c","h","a","r","a","c","t","e","r","s",")">>

\* a finding that case-insensitively holds 'missing', 'too', 'slow' or
\* 'multiple'
Eligible(f) ==
    \E kw \in {KW_missing, KW_too, KW_slow, KW_multiple} :
        Contains(Lower(f), kw)

\* the improvement text of each eligible finding given to
\* generate_improvements, written out
ImprovementText(f) ==
    CASE f = MISSING_TITLE -> ADD_TITLE
      [] f = TITLE_TOO_SHORT -> TITLE_INCREASE
      [] f = DESC_TOO_LONG -> DESC_REDUCE
      [] OTHER -> f

\* C7: generate_improvements outputs one improvement for each finding that
\* case-insensitively holds 'missing', 'too', 'slow' or 'multiple' and none
\* for the others, in the order meta, content, technical and the order of
\* each sequence; the text is the finding with 'Missing' replaced by 'Add',
\* 'too short' by 'increase length of' and 'too long' by 'reduce length of',
\* and is the finding itself when it holds none of them.
C7_ImprovementsFilterAndRewrite ==
    IsSome(improvements) =>
        LET all == meta_analysis \o content_analysis \o technical_analysis
            E == {i \in 1..Len(all) : Eligible(all[i])}
            imp == Val(improvements)
        IN  /\ Len(imp) = Cardinality(E)
            /\ \A i \in E :
                imp[Cardinality({j \in E : j <= i})] = ImprovementText(all[i])

\* C7 witness: the slow-load finding (technical) was kept verbatim, after the
\* 'Add title tag' that 'Missing title tag' (meta) gave.
C7_Witness ==
    /\ IsSome(improvements)
    /\ meta_analysis = <<MISSING_TITLE>>
    /\ content_analysis = <<>>
    /\ technical_analysis = <<SLOW_LOAD>>
    /\ Val(improvements) = <<ADD_TITLE, SLOW_LOAD>>

\* len(urlparse(u).path.split('/')) of the URLs analysed, as Python gives it
PathSegments(u) ==
    CASE u = URL_ROOT -> 2
      [] u = URL_BARE -> 1
      [] u = URL_THREE -> 4
      [] u = URL_THREE_SLASH -> 5
      [] u = URL_DEEP -> 6
      [] u = URL_HTTP_DEEP -> 5
      [] u = URL_QUERY -> 2

\* C8: analyze_technical emits the 'too deep' finding iff the URL's path
\* splits on '/' into more than 4 segments (so for .../a/b/c/d/e and not for
\* the root URL), the slow-load finding iff the response took more than 2
\* seconds and the HTTPS finding iff the URL is not https, each rule
\* independently of the others.
C8_TechnicalRulesIndependent ==
    IsSome(scores) =>
        /\ (URL_TOO_DEEP \in Range(technical_analysis)) = (PathSegments(url) > 4)
        /\ (SLOW_LOAD \in Range(technical_analysis)) =
                (Val(response).elapsed > 2000)
        /\ (NOT_HTTPS \in Range(technical_analysis)) =
                (SubSeq(url, 1, 8) # STR_https \o <<":", "/", "/">>)
        /\ (url = URL_DEEP => URL_TOO_DEEP \in Range(technical_analysis))
        /\ (url = URL_ROOT => URL_TOO_DEEP \notin Range(technical_analysis))
        /\ Len(technical_analysis) = Cardinality(Range(technical_analysis))

\* C8 witness: a deep https URL fetched in time gives the 'too deep' finding
\* alone.
C8_Witness ==
    /\ IsSome(scores)
    /\ url = URL_DEEP
    /\ Val(response).elapsed = 2000
    /\ technical_analysis = <<URL_TOO_DEEP>>

\* C9: the requests of analyze() are issued in the order primary fetch,
\* content-extraction fetch, mobile-check fetch, each at most once; when the
\* primary fetch raises, analyze() raises, no report is returned and neither
\* of the other two requests is ever issued.
C9_RequestsInOrderOnce ==
    /\ IsPrefix(requests_log, <<"primary", "extract", "mobile">>)
    /\ (pc = "raised" /\ response = None) =>
            /\ requests_log = <<"primary">>
            /\ report = None
            /\ ~ENABLED (Extract \/ Return)

\* C9 witness: the primary fetch raised.
C9_Witness ==
    /\ pc = "raised"
    /\ response = None
    /\ requests_log = <<"primary">>

\* C10: in every returned report, a category whose score is below 100 has an
\* improvement derived from one of its findings, every finding that lowered
\* the score having its entry in the improvements.
C10_PenalisedFindingHasImprovement ==
    pc = "done" =>
        \A c \in Categories :
            Val(report).metrics[c] < 100 =>
                \E f \in Range(FindingsOf(Val(report), c)) :
                    /\ Eligible(f)
                    /\ Suggestion(f) \in Range(Val(report).improvements)

====
